---------------------------- MODULE Spec2Model ----------------------------
(***************************************************************************)
(* Model of dashboard.py: the Dash financial dashboard comparing Ambuja    *)
(* Cements and UltraTech Cement.  The module globals (dataset, catalogs)   *)
(* and the component properties wired by the two callbacks are the state;  *)
(* the callbacks update_kpis_and_insights and update_charts are operators  *)
(* computed as the code (and pandas) compute them.                         *)
(*                                                                         *)
(* Numbers: every literal of the dataset has two decimals, so a float is   *)
(* kept as an integer number of hundredths, [num |-> 162] for 1.62.        *)
(* Python's None and the float NaN are two further, distinct values.       *)
(* Strings: the em dash (U+2014) of the source is written "--".            *)
(***************************************************************************)
EXTENDS Integers, Sequences, FiniteSets, TLC

VARIABLES
    df,              \* the tidy DataFrame (module global)
    metric_groups,   \* group key -> ordered metric names (module global)
    metric_colors,   \* metric -> color (module global)
    company_colors,  \* company -> color (module global)
    insights,        \* metric -> insight text (module global)
    company_select,  \* value of Dropdown 'company-select'
    metric_group,    \* value of Dropdown 'metric-group'
    year_slider,     \* value of RangeSlider 'year-range', <<min, max>>
    loaded,          \* the page's initial callbacks have run
    kpi_cards,       \* children of 'kpi-cards'
    insights_section,\* children of 'insights-section'
    main_chart,      \* figure of 'main-chart'
    spark_chart,     \* figure of 'spark-chart'
    data_table,      \* children of 'data-table'
    kpi_status,      \* outcome of the last update_kpis_and_insights call
    chart_status,    \* outcome of the last update_charts call
    snap             \* observer: the selection and views of the first page load

globals == <<df, metric_groups, metric_colors, company_colors, insights>>
selection == <<company_select, metric_group, year_slider>>
kpi_views == <<kpi_cards, insights_section>>
chart_views == <<main_chart, spark_chart, data_table>>
views == <<kpi_cards, insights_section, main_chart, spark_chart, data_table>>
vars == <<df, metric_groups, metric_colors, company_colors, insights,
          company_select, metric_group, year_slider, loaded,
          kpi_cards, insights_section, main_chart, spark_chart, data_table,
          kpi_status, chart_status, snap>>

----------------------------------------------------------------------------
(* Values *)

None == [none |-> TRUE]
NaN == [nan |-> TRUE]
Num(h) == [num |-> h]
Floats(hs) == [i \in 1..Len(hs) |-> Num(hs[i])]

EM_DASH == "--"

Ambuja == "Ambuja Cements"
UltraTech == "UltraTech Cement"
Both == "Both"

RECURSIVE Concat(_)
Concat(ss) == IF ss = <<>> THEN <<>> ELSE Head(ss) \o Concat(Tail(ss))

RECURSIVE Join(_, _)
Join(strs, sep) ==
    IF strs = <<>> THEN ""
    ELSE IF Len(strs) = 1 THEN strs[1]
    ELSE strs[1] \o sep \o Join(Tail(strs), sep)

----------------------------------------------------------------------------
(* Module globals *)

metric_colors_dict ==
    ("Current Ratio" :> "#1f77b4") @@ ("Quick Ratio" :> "#aec7e8") @@
    ("Gross Profit Margin" :> "#2ca02c") @@ ("Net Profit Margin" :> "#98df8a") @@
    ("Interest Coverage Ratio" :> "#9467bd") @@ ("Inventory Turnover" :> "#ff7f0e") @@
    ("Asset Turnover" :> "#ffbb78") @@ ("Trade Receivable Turnover" :> "#d62728")

company_colors_dict == (Ambuja :> "#1f77b4") @@ (UltraTech :> "#ff7f0e")

\* The insight texts, shortened to their first words.
insights_dict ==
    ("Current Ratio" :> "Ambuja's 1.62 ('21) to 1.55 ('25) shows solid liquidity ...") @@
    ("Quick Ratio" :> "Ambuja's 1.41-1.30 ('21-'25) reflects strong immediate liquidity ...") @@
    ("Gross Profit Margin" :> "Ambuja's volatile 17.46% ('21) to 9.96% ('25) ...") @@
    ("Net Profit Margin" :> "Ambuja improves from 6.25% ('22) to 11.89% ('25) ...") @@
    ("Interest Coverage Ratio" :> "Ambuja's strong 37.14-28.46 ('21-'25) reflects low debt risk ...") @@
    ("Inventory Turnover" :> "Ambuja's 10.58-8.25 ('21-'25) shows slowing inventory movement ...") @@
    ("Asset Turnover" :> "Ambuja's 0.94-0.61 ('21-'25) reflects declining asset efficiency ...") @@
    ("Trade Receivable Turnover" :> "Ambuja's 48.00-25.00 ('21-'25) signals slower collections ...")

years == <<"Mar-21", "Mar-22", "Mar-23", "Mar-24", "Mar-25">>
year_numbers == <<2021, 2022, 2023, 2024, 2025>>

\* Insertion order of the keys of the dicts ambuja and ultratech.
metric_keys ==
    <<"Current Ratio", "Quick Ratio", "Gross Profit Margin", "Net Profit Margin",
      "Interest Coverage Ratio", "Inventory Turnover", "Asset Turnover",
      "Trade Receivable Turnover">>

ambuja ==
    ("Current Ratio" :> Floats(<<162, 142, 196, 203, 155>>)) @@
    ("Quick Ratio" :> Floats(<<141, 122, 172, 179, 130>>)) @@
    ("Gross Profit Margin" :> Floats(<<1746, 835, 893, 1440, 996>>)) @@
    ("Net Profit Margin" :> Floats(<<959, 625, 663, 1078, 1189>>)) @@
    ("Interest Coverage Ratio" :> Floats(<<3714, 1933, 2163, 2150, 2846>>)) @@
    ("Inventory Turnover" :> Floats(<<1058, 926, 1190, 919, 825>>)) @@
    ("Asset Turnover" :> Floats(<<94, 95, 109, 74, 61>>)) @@
    ("Trade Receivable Turnover" :> Floats(<<4800, 3651, 4326, 2801, 2500>>))

ultratech ==
    ("Current Ratio" :> Floats(<<37, 39, 42, 43, 44>>)) @@
    ("Quick Ratio" :> Floats(<<20, 14, 17, 15, 17>>)) @@
    ("Gross Profit Margin" :> Floats(<<5622, 5097, 4501, 4887, 4903>>)) @@
    ("Net Profit Margin" :> Floats(<<1230, 1369, 786, 997, 847>>)) @@
    ("Interest Coverage Ratio" :> Floats(<<731, 1137, 1062, 1171, 667>>)) @@
    ("Inventory Turnover" :> <<None>> \o Floats(<<559, 600, 497, 441>>)) @@
    ("Asset Turnover" :> <<None>> \o Floats(<<86, 101, 107, 92>>)) @@
    ("Trade Receivable Turnover" :> <<None>> \o Floats(<<254, 258, 255, 228>>))

Row(c, k, v, i) ==
    [Company |-> c, Metric |-> k, Value |-> v, YearLabel |-> years[i],
     Year |-> year_numbers[i]]

\* The list `rows`, in the order the two nested loops append.
rows ==
    Concat([i \in 1..Len(years) |->
        [j \in 1..Len(metric_keys) |->
            Row(Ambuja, metric_keys[j], ambuja[metric_keys[j]][i], i)]
        \o
        [j \in 1..Len(metric_keys) |->
            Row(UltraTech, metric_keys[j], ultratech[metric_keys[j]][i], i)]])

\* pd.DataFrame(rows): the column Value holds floats and None, so pandas makes
\* it a float64 column and stores each None as NaN.
DataFrame(rs) ==
    [i \in 1..Len(rs) |-> [rs[i] EXCEPT !.Value = IF @ = None THEN NaN ELSE @]]

metric_groups_dict ==
    ("liquidity" :> <<"Current Ratio", "Quick Ratio">>) @@
    ("profitability" :> <<"Gross Profit Margin", "Net Profit Margin">>) @@
    ("turnover" :> <<"Inventory Turnover", "Asset Turnover", "Trade Receivable Turnover">>) @@
    ("leverage" :> <<"Interest Coverage Ratio">>)

----------------------------------------------------------------------------
(* Python and pandas helpers *)

DictGet(d, k, default) == IF k \in DOMAIN d THEN d[k] ELSE default

\* frame[(frame['Company'] == company) & (frame['Metric'] == metric)]
CompanyMetricRows(frame, company, metric) ==
    SelectSeq(frame, LAMBDA r : r.Company = company /\ r.Metric = metric)

Range(seq) == {seq[i] : i \in 1..Len(seq)}

RECURSIVE InsertByYear(_, _)
InsertByYear(sorted, r) ==
    IF sorted = <<>> THEN <<r>>
    ELSE IF sorted[Len(sorted)].Year <= r.Year THEN Append(sorted, r)
    ELSE Append(InsertByYear(SubSeq(sorted, 1, Len(sorted) - 1), r), sorted[Len(sorted)])

RECURSIVE SortValuesYear(_)
\* sort_values('Year'): ascending by Year, equal years keep their order.
SortValuesYear(frame) ==
    IF frame = <<>> THEN <<>>
    ELSE InsertByYear(SortValuesYear(SubSeq(frame, 1, Len(frame) - 1)), frame[Len(frame)])

Column(frame, f) == [i \in 1..Len(frame) |-> frame[i][f]]

TwoDigits(n) == IF n < 10 THEN "0" \o ToString(n) ELSE ToString(n)

\* f"{v:.2f}" of a float: two decimals, and "nan" for NaN.
Fmt2f(v) ==
    IF v = NaN THEN "nan"
    ELSE ToString(v.num \div 100) \o "." \o TwoDigits(v.num % 100)

\* f"{v:.2f}" if v is not None else EM DASH
FormatOrDash(v) == IF v # None THEN Fmt2f(v) ELSE EM_DASH

\* Mutant: iloc[0], the value of the earliest year.
kpi_latest_first(df_local, company, metric) ==
    LET sub == CompanyMetricRows(df_local, company, metric)
    IN  IF sub = <<>> THEN None
        ELSE SortValuesYear(sub)[1].Value

\* Helper to fetch latest KPI
kpi_latest(df_local, company, metric) ==
    LET sub == CompanyMetricRows(df_local, company, metric)
    IN  IF sub = <<>> THEN None
        ELSE LET sorted == SortValuesYear(sub) IN sorted[Len(sorted)].Value

----------------------------------------------------------------------------
(* Callback 1: KPI cards and insights *)

KpiCard(company, metric) ==
    IF company = Both
    THEN [metric |-> metric,
          values |-> << [label |-> "Ambuja",
                         text |-> FormatOrDash(kpi_latest(df, Ambuja, metric))],
                        [label |-> "UltraTech",
                         text |-> FormatOrDash(kpi_latest(df, UltraTech, metric))] >>]
    ELSE [metric |-> metric,
          values |-> << [text |-> FormatOrDash(kpi_latest(df, company, metric))] >>]

update_kpis_and_insights(company, group) ==
    LET metrics == DictGet(metric_groups, group, <<>>)
    IN  [status |-> "ok",
         cards |-> [i \in 1..Len(metrics) |-> KpiCard(company, metrics[i])],
         insight_children |->
            <<[h4 |-> "Insights for Selected Ratios"]>> \o
            [i \in 1..Len(metrics) |->
                [strong |-> metrics[i] \o ": ",
                 text |-> DictGet(insights, metrics[i], "No insight available.")]]]

----------------------------------------------------------------------------
(* Callback 2: main chart, sparkline, data table *)

\* Mutant: the lower end of the range is excluded (Year > yr_min).
Filtered_exclusive(frame, metrics, yr_min, yr_max) ==
    SelectSeq(frame, LAMBDA r :
        r.Metric \in Range(metrics) /\ r.Year > yr_min /\ r.Year <= yr_max)

\* df[(df['Metric'].isin(metrics)) & (df['Year'] >= yr_min) & (df['Year'] <= yr_max)]
Filtered(frame, metrics, yr_min, yr_max) ==
    SelectSeq(frame, LAMBDA r :
        r.Metric \in Range(metrics) /\ r.Year >= yr_min /\ r.Year <= yr_max)

\* Mutant: metrics[1], the second metric, taken as primary.
PrimaryOf_second(metrics) ==
    IF Len(metrics) >= 2 THEN [ok |-> TRUE, val |-> metrics[2]]
    ELSE [ok |-> FALSE, err |-> "IndexError"]

\* metrics[0]; an empty list raises IndexError.
PrimaryOf(metrics) ==
    IF Len(metrics) >= 1 THEN [ok |-> TRUE, val |-> metrics[1]]
    ELSE [ok |-> FALSE, err |-> "IndexError"]

\* str.title() of the catalog's group keys.
TitleOf(group) ==
    CASE group = "liquidity" -> "Liquidity"
      [] group = "profitability" -> "Profitability"
      [] group = "turnover" -> "Turnover"
      [] group = "leverage" -> "Leverage"
      [] OTHER -> group

\* go.Bar(x=s['YearLabel'], y=s['Value'], name=..., text=[...], ...)
Bar(s, name, marker) ==
    [type |-> "bar",
     x |-> Column(s, "YearLabel"),
     y |-> Column(s, "Value"),
     name |-> name,
     text |-> [i \in 1..Len(s) |-> FormatOrDash(s[i].Value)],
     textposition |-> "auto",
     marker |-> marker]

\* marker = dict(color=...), with marker['pattern'] set when hatched.
MarkerOf(metric, hatched) ==
    [color |-> DictGet(metric_colors, metric, "#000000"),
     pattern |-> IF hatched THEN "/" ELSE "none"]

\* Mutant: with both companies the company loop is the outer one.
MainTraces_companyMajor(company, metrics, dff) ==
    IF company = Both
    THEN Concat([c \in 1..2 |->
            [i \in 1..Len(metrics) |->
                LET comp == <<Ambuja, UltraTech>>[c]
                    s == SortValuesYear(CompanyMetricRows(dff, comp, metrics[i]))
                IN  Bar(s, comp \o " -- " \o metrics[i], MarkerOf(metrics[i], comp = UltraTech))]])
    ELSE [i \in 1..Len(metrics) |->
            LET s == SortValuesYear(CompanyMetricRows(dff, company, metrics[i]))
            IN  Bar(s, metrics[i], MarkerOf(metrics[i], FALSE))]

\* The traces of the main chart, in the order the loops add them.
MainTraces(company, metrics, dff) ==
    IF company = Both
    THEN Concat([i \in 1..Len(metrics) |->
            [c \in 1..2 |->
                LET comp == <<Ambuja, UltraTech>>[c]
                    s == SortValuesYear(CompanyMetricRows(dff, comp, metrics[i]))
                IN  Bar(s, comp \o " -- " \o metrics[i], MarkerOf(metrics[i], comp = UltraTech))]])
    ELSE [i \in 1..Len(metrics) |->
            LET s == SortValuesYear(CompanyMetricRows(dff, company, metrics[i]))
            IN  Bar(s, metrics[i], MarkerOf(metrics[i], FALSE))]

MainChart(company, group, metrics, dff) ==
    [data |-> MainTraces(company, metrics, dff),
     layout |-> [barmode |-> "group",
                 title |-> IF company = Both
                           THEN "Comparison -- grouped by metric & company"
                           ELSE company \o " -- " \o TitleOf(group),
                 xaxis_title |-> "Year", yaxis_title |-> "Value"]]

\* go.Scatter(x=s['YearLabel'], y=s['Value'], mode='lines+markers', name=comp, ...)
Scatter(s, comp) ==
    [type |-> "scatter",
     x |-> Column(s, "YearLabel"),
     y |-> Column(s, "Value"),
     mode |-> "lines+markers",
     name |-> comp,
     line |-> [color |-> DictGet(company_colors, comp, "#000000")]]

\* Sparkline (first metric)
SparkChart(company, primary, dff) ==
    [data |->
        IF company = Both
        THEN [c \in 1..2 |->
                LET comp == <<Ambuja, UltraTech>>[c]
                IN  Scatter(SortValuesYear(CompanyMetricRows(dff, comp, primary)), comp)]
        ELSE << Scatter(SortValuesYear(CompanyMetricRows(dff, company, primary)), company) >>,
     layout |-> [title |-> "Trend -- " \o primary, height |-> 280]]

----------------------------------------------------------------------------
(* Data table: pivot_table, round, to_csv *)

\* The strings that serve as pivot keys, in Python's string order.
LexOrder ==
    <<"Ambuja Cements", "Asset Turnover", "Current Ratio", "Gross Profit Margin",
      "Interest Coverage Ratio", "Inventory Turnover",
      "Mar-21", "Mar-22", "Mar-23", "Mar-24", "Mar-25",
      "Net Profit Margin", "Quick Ratio", "Trade Receivable Turnover",
      "UltraTech Cement">>

LexRank(str) == CHOOSE i \in 1..Len(LexOrder) : LexOrder[i] = str

\* Rank of a column key (Company, Metric): tuples compare left to right.
ColRank(col) == LexRank(col[1]) * (Len(LexOrder) + 1) + LexRank(col[2])

RECURSIVE SortByRank(_, _)
\* The elements of S in ascending order of rank[x].
SortByRank(S, rank) ==
    IF S = {} THEN <<>>
    ELSE LET m == CHOOSE x \in S : \A y \in S : rank[x] <= rank[y]
         IN  <<m>> \o SortByRank(S \ {m}, rank)

RECURSIVE SumNum(_)
SumNum(vs) == IF vs = <<>> THEN 0 ELSE Head(vs).num + SumNum(Tail(vs))

\* aggfunc='mean' of a group: NaN values are skipped, a group without a value
\* gives NaN.  (Every group of this dataset holds one row, whose mean is exact.)
Mean(vs) ==
    LET present == SelectSeq(vs, LAMBDA v : v # NaN)
    IN  IF present = <<>> THEN NaN ELSE Num(SumNum(present) \div Len(present))

\* dff.pivot_table(index='YearLabel', columns=['Company', 'Metric'], values='Value')
\* with the defaults aggfunc='mean', dropna=True: the groups whose mean is NaN
\* are dropped before unstacking, index and columns are sorted, a cell without
\* a group is NaN, and columns that are entirely NaN are dropped at the end.
\* A dff without rows gives a table without rows and columns.
pivot_table(dff) ==
    LET GroupMean(l, c) ==
            Mean(Column(SelectSeq(dff, LAMBDA r :
                r.YearLabel = l /\ r.Company = c[1] /\ r.Metric = c[2]), "Value"))
        \* the groups that survive agged.dropna(how='all')
        agged == {i \in 1..Len(dff) :
                    GroupMean(dff[i].YearLabel, <<dff[i].Company, dff[i].Metric>>) # NaN}
        labels == {dff[i].YearLabel : i \in agged}
        cols == {<<dff[i].Company, dff[i].Metric>> : i \in agged}
        index == SortByRank(labels, [l \in labels |-> LexRank(l)])
        unstacked == SortByRank(cols, [c \in cols |-> ColRank(c)])
        values == [i \in 1..Len(index) |->
                    [j \in 1..Len(unstacked) |-> GroupMean(index[i], unstacked[j])]]
        \* table.dropna(how='all', axis=1)
        kept == {j \in 1..Len(unstacked) : \E i \in 1..Len(index) : values[i][j] # NaN}
        keptSeq == SortByRank(kept, [j \in kept |-> j])
    IN  [index |-> index,
         columns |-> [n \in 1..Len(keptSeq) |-> unstacked[keptSeq[n]]],
         values |-> [i \in 1..Len(index) |->
                        [n \in 1..Len(keptSeq) |-> values[i][keptSeq[n]]]]]

\* round(3) of a float kept in hundredths: the same number, now counted in
\* thousandths (37.14 is [milli |-> 37140]).
Round3(v) == IF v = NaN THEN NaN ELSE [milli |-> v.num * 10]

RoundTable(t) ==
    [t EXCEPT !.values = [i \in 1..Len(t.index) |->
                            [j \in 1..Len(t.columns) |-> Round3(t.values[i][j])]]]

\* repr of a float with at most three decimals: trailing zeros are dropped,
\* one decimal is always written (48.0, 21.5, 37.14).
FloatRepr(m) ==
    LET f == m % 1000
    IN  ToString(m \div 1000) \o "." \o
        (IF f % 100 = 0 THEN ToString(f \div 100)
         ELSE IF f % 10 = 0 THEN TwoDigits(f \div 10)
         ELSE IF f < 10 THEN "00" \o ToString(f)
         ELSE IF f < 100 THEN "0" \o ToString(f)
         ELSE ToString(f))

\* to_csv() of a frame with two column levels: one header line per level, a
\* line naming the index, one line per row; NaN is written as the empty string.
to_csv(t) ==
    << Join(<<"Company">> \o [j \in 1..Len(t.columns) |-> t.columns[j][1]], ","),
       Join(<<"Metric">> \o [j \in 1..Len(t.columns) |-> t.columns[j][2]], ","),
       Join(<<"YearLabel">> \o [j \in 1..Len(t.columns) |-> ""], ",") >>
    \o
    [i \in 1..Len(t.index) |->
        Join(<<t.index[i]>> \o
             [j \in 1..Len(t.columns) |->
                IF t.values[i][j] = NaN THEN "" ELSE FloatRepr(t.values[i][j].milli)],
             ",")]

\* Data table (CSV text); table_df.round(3) is kept beside the text.
DataTable(dff) ==
    LET table_df == RoundTable(pivot_table(dff))
    IN  [table_df |-> table_df, table_text |-> to_csv(table_df)]

\* Mutant: the table is pivoted from the selected company's rows only.
update_charts_companyTable(company, group, year_range) ==
    LET yr_min == year_range[1]
        yr_max == year_range[2]
    IN  IF group \notin DOMAIN metric_groups THEN [status |-> "KeyError"]
        ELSE
        LET metrics == metric_groups[group]
            dff == Filtered(df, metrics, yr_min, yr_max)
            primary == PrimaryOf(metrics)
        IN  IF ~primary.ok THEN [status |-> primary.err]
            ELSE [status |-> "ok",
                  fig |-> MainChart(company, group, metrics, dff),
                  spark |-> SparkChart(company, primary.val, dff),
                  table |-> DataTable(SelectSeq(dff, LAMBDA r :
                                company = Both \/ r.Company = company))]

update_charts(company, group, year_range) ==
    LET yr_min == year_range[1]
        yr_max == year_range[2]
    IN  IF group \notin DOMAIN metric_groups THEN [status |-> "KeyError"]
        ELSE
        LET metrics == metric_groups[group]
            dff == Filtered(df, metrics, yr_min, yr_max)
            primary == PrimaryOf(metrics)
        IN  IF ~primary.ok THEN [status |-> primary.err]
            ELSE [status |-> "ok",
                  fig |-> MainChart(company, group, metrics, dff),
                  spark |-> SparkChart(company, primary.val, dff),
                  table |-> DataTable(dff)]

----------------------------------------------------------------------------
(* The state machine: page load and the three selection events *)

\* How far beyond the slider's ends a requested year may lie.
YearSlack == 1

MinYear == year_numbers[1]
MaxYear == year_numbers[Len(year_numbers)]

CompanyOptions == {Ambuja, UltraTech, Both}
GroupOptions == {"liquidity", "profitability", "leverage", "turnover"}
\* The slider has step=None and a mark per year: both handles rest on marks.
SliderValues ==
    {<<lo, hi>> : lo \in Range(year_numbers), hi \in Range(year_numbers)} \cap
    {r \in Int \X Int : r[1] <= r[2]}

\* Values a callback request can carry although no control offers them.
GroupArgs == GroupOptions \cup {"unknown"}
YearArgs ==
    {r \in ((MinYear - YearSlack)..(MaxYear + YearSlack)) \X
           ((MinYear - YearSlack)..(MaxYear + YearSlack)) : r[1] <= r[2]}

NoFigure == [data |-> <<>>]
NoTable == [table_text |-> <<>>]

Init ==
    /\ df = DataFrame(rows)
    /\ metric_groups = metric_groups_dict
    /\ metric_colors = metric_colors_dict
    /\ company_colors = company_colors_dict
    /\ insights = insights_dict
    /\ company_select = Both
    /\ metric_group = "liquidity"
    /\ year_slider = <<MinYear, MaxYear>>
    /\ loaded = FALSE
    /\ kpi_cards = <<>>
    /\ insights_section = <<>>
    /\ main_chart = NoFigure
    /\ spark_chart = NoFigure
    /\ data_table = NoTable
    /\ kpi_status = "none"
    /\ chart_status = "none"
    /\ snap = [taken |-> FALSE, away |-> FALSE, returned |-> FALSE]

\* Dash calls update_kpis_and_insights and sets its two outputs; a call that
\* raises leaves the outputs as they were.
RunKpis(company, group) ==
    LET res == update_kpis_and_insights(company, group)
    IN  /\ kpi_status' = res.status
        /\ IF res.status = "ok"
           THEN /\ kpi_cards' = res.cards
                /\ insights_section' = res.insight_children
           ELSE UNCHANGED kpi_views

\* Mutant: the primary metric is taken with metrics.pop(0), which removes it
\* from the catalog's list.
RunCharts_popsPrimary(company, group, year_range) ==
    LET res == update_charts(company, group, year_range)
    IN  /\ chart_status' = res.status
        /\ IF res.status = "ok"
           THEN /\ main_chart' = res.fig
                /\ spark_chart' = res.spark
                /\ data_table' = res.table
                /\ metric_groups' = [metric_groups EXCEPT ![group] = Tail(@)]
           ELSE UNCHANGED <<chart_views, metric_groups>>
        /\ UNCHANGED <<df, metric_colors, company_colors, insights>>

\* Dash calls update_charts and sets its three outputs; a call that raises
\* leaves the outputs as they were.  The function assigns no module global.
RunCharts(company, group, year_range) ==
    LET res == update_charts(company, group, year_range)
    IN  /\ chart_status' = res.status
        /\ IF res.status = "ok"
           THEN /\ main_chart' = res.fig
                /\ spark_chart' = res.spark
                /\ data_table' = res.table
           ELSE UNCHANGED chart_views
        /\ UNCHANGED globals

\* The page is served: both callbacks run once with the controls' defaults.
PageLoad ==
    /\ ~loaded
    /\ loaded' = TRUE
    /\ RunKpis(company_select, metric_group)
    /\ RunCharts(company_select, metric_group, year_slider)
    /\ UNCHANGED selection

CompanyChanged(c) ==
    /\ loaded
    /\ c # company_select
    /\ company_select' = c
    /\ RunKpis(c, metric_group)
    /\ RunCharts(c, metric_group, year_slider)
    /\ UNCHANGED <<metric_group, year_slider, loaded>>

GroupChanged(g) ==
    /\ loaded
    /\ g # metric_group
    /\ metric_group' = g
    /\ RunKpis(company_select, g)
    /\ RunCharts(company_select, g, year_slider)
    /\ UNCHANGED <<company_select, year_slider, loaded>>

\* 'year-range' is an Input of update_charts only.
YearRangeChanged(r) ==
    /\ loaded
    /\ r # year_slider
    /\ year_slider' = r
    /\ RunCharts(company_select, metric_group, r)
    /\ UNCHANGED <<company_select, metric_group, loaded, kpi_views, kpi_status>>

\* The browser loads the page again: the controls are back at their defaults
\* and both callbacks run; the module globals live on in the server process.
PageReload ==
    /\ loaded
    /\ company_select' = Both
    /\ metric_group' = "liquidity"
    /\ year_slider' = <<MinYear, MaxYear>>
    /\ RunKpis(Both, "liquidity")
    /\ RunCharts(Both, "liquidity", <<MinYear, MaxYear>>)
    /\ UNCHANGED loaded

\* The observer keeps the selection and the views of the first page load, and
\* notes when the selection has been another one (away) and when, after that,
\* it is the recorded one again (returned).
Observe ==
    snap' = IF ~loaded /\ loaded'
            THEN [taken |-> TRUE, away |-> FALSE, returned |-> FALSE,
                  selection |-> selection', views |-> views']
            ELSE IF selection' # snap.selection
            THEN [snap EXCEPT !.away = TRUE]
            ELSE IF snap.away
            THEN [snap EXCEPT !.returned = TRUE]
            ELSE snap

\* The events the page and its controls can produce.
Next ==
    \/ PageLoad /\ Observe
    \/ PageReload /\ Observe
    \/ \E c \in CompanyOptions : CompanyChanged(c) /\ Observe
    \/ \E g \in GroupOptions : GroupChanged(g) /\ Observe
    \/ \E r \in SliderValues : YearRangeChanged(r) /\ Observe

Spec == Init /\ [][Next]_vars

\* The callbacks as functions of their arguments: the arguments are drawn from
\* sets wider than the controls' options (a group key outside the catalog, years
\* beyond the slider's ends) and each callback is applied to them once.
InitCall ==
    /\ df = DataFrame(rows)
    /\ metric_groups = metric_groups_dict
    /\ metric_colors = metric_colors_dict
    /\ company_colors = company_colors_dict
    /\ insights = insights_dict
    /\ company_select \in CompanyOptions
    /\ metric_group \in GroupArgs
    /\ year_slider \in YearArgs
    /\ loaded = FALSE
    /\ kpi_cards = <<>>
    /\ insights_section = <<>>
    /\ main_chart = NoFigure
    /\ spark_chart = NoFigure
    /\ data_table = NoTable
    /\ kpi_status = "none"
    /\ chart_status = "none"
    /\ snap = [taken |-> FALSE, away |-> FALSE, returned |-> FALSE]

NextCall == PageLoad /\ Observe
SpecCall == InitCall /\ [][NextCall]_vars

----------------------------------------------------------------------------
(* What the claims are stated against: the two constant tables of the source *)

\* The entry of the company's table for a metric and a year (a float or None).
TableValue(comp, metric, year) ==
    (IF comp = Ambuja THEN ambuja ELSE ultratech)[metric][year - MinYear + 1]

LabelOfYear(year) == years[year - MinYear + 1]

\* The years lo..hi in ascending order.
YearsOf(r) == [i \in 1..(r[2] - r[1] + 1) |-> r[1] + i - 1]

\* The (company, metric) pair of each series: metrics in catalog order, and with
\* both companies Ambuja before UltraTech within each metric.
SeriesPairs(company, group) ==
    LET metrics == metric_groups_dict[group]
    IN  IF company = Both
        THEN Concat([i \in 1..Len(metrics) |->
                << <<Ambuja, metrics[i]>>, <<UltraTech, metrics[i]>> >>])
        ELSE [i \in 1..Len(metrics) |-> <<company, metrics[i]>>]

SeriesLabel(company, pair) ==
    IF company = Both THEN pair[1] \o " -- " \o pair[2] ELSE pair[2]

----------------------------------------------------------------------------
(* C1 *)

\* C1: after any sequence of company, group and year-range events both
\* callbacks have completed without failing and their views are those of the
\* current selection: one KPI card per metric of the group, a main chart with
\* traces, a sparkline of the group's first metric with a trace per company
\* shown, and a table text.
C1_ProjectionsTotal ==
    loaded =>
        /\ kpi_status = "ok"
        /\ chart_status = "ok"
        /\ Len(kpi_cards) = Len(metric_groups_dict[metric_group])
        /\ \A i \in 1..Len(kpi_cards) :
                kpi_cards[i].metric = metric_groups_dict[metric_group][i]
        /\ Len(main_chart.data) >= 1
        /\ spark_chart.layout.title = "Trend -- " \o metric_groups_dict[metric_group][1]
        /\ Len(spark_chart.data) = IF company_select = Both THEN 2 ELSE 1
        /\ \A k \in 1..Len(spark_chart.data) :
                spark_chart.data[k].x = [i \in 1..Len(YearsOf(year_slider)) |->
                                            LabelOfYear(YearsOf(year_slider)[i])]
        /\ Len(data_table.table_text) >= 1

\* UltraTech, turnover, 2021 only: every value of the primary metric is absent.
C1_Witness ==
    /\ loaded
    /\ selection = <<UltraTech, "turnover", <<2021, 2021>> >>
    /\ chart_status = "ok"
    /\ spark_chart.data[1].y = <<NaN>>

----------------------------------------------------------------------------
(* C2 *)

\* C2: every record of the filtered range contributes a point for its year
\* label to its series; the text label of a point whose value is absent is
\* exactly the dash and its value is not 0; the label of every other point is
\* its value formatted to two decimals.
C2_AbsentShownAsDash ==
    loaded =>
        LET pairs == SeriesPairs(company_select, metric_group)
            ys == YearsOf(year_slider)
        IN  /\ Len(main_chart.data) = Len(pairs)
            /\ \A k \in 1..Len(pairs) :
                LET tr == main_chart.data[k]
                IN  /\ tr.x = [i \in 1..Len(ys) |-> LabelOfYear(ys[i])]
                    /\ \A i \in 1..Len(ys) :
                        LET v == TableValue(pairs[k][1], pairs[k][2], ys[i])
                        IN  IF v = None
                            THEN tr.text[i] = EM_DASH /\ tr.y[i] # Num(0)
                            ELSE tr.text[i] = Fmt2f(v) /\ tr.y[i] = v

----------------------------------------------------------------------------
(* C3 *)

\* The text of a card's value: the table's entry of the greatest year.
LatestText(comp, metric) == Fmt2f(TableValue(comp, metric, MaxYear))

C3_KpiIsLatest ==
    loaded =>
        LET metrics == metric_groups_dict[metric_group]
        IN  /\ Len(kpi_cards) = Len(metrics)
            /\ \A i \in 1..Len(metrics) :
                /\ kpi_cards[i].metric = metrics[i]
                /\ IF company_select = Both
                   THEN /\ kpi_cards[i].values[1].text = LatestText(Ambuja, metrics[i])
                        /\ kpi_cards[i].values[2].text = LatestText(UltraTech, metrics[i])
                   ELSE kpi_cards[i].values[1].text = LatestText(company_select, metrics[i])

C3_YearRangeLeavesKpis ==
    (/\ loaded
     /\ year_slider' # year_slider
     /\ company_select' = company_select
     /\ metric_group' = metric_group) => kpi_cards' = kpi_cards

\* C3: the KPI value of every company and metric is the value of the record
\* with the greatest year (2025), whatever the year range, and a change of the
\* year range alone leaves the KPI cards unchanged.
C3_KpiIgnoresYearRange == []C3_KpiIsLatest /\ [][C3_YearRangeLeavesKpis]_vars

\* UltraTech's Current Ratio card shows 0.44 while the range is 2021..2022.
C3_Witness ==
    /\ loaded
    /\ selection = <<UltraTech, "liquidity", <<2021, 2022>> >>
    /\ kpi_cards[1].metric = "Current Ratio"
    /\ kpi_cards[1].values[1].text = "0.44"

----------------------------------------------------------------------------
(* C4 *)

\* C4: a call with a group key that is not in the catalog fails, in both
\* callbacks: neither returns views.
C4_UnknownGroupFails ==
    (loaded /\ metric_group \notin DOMAIN metric_groups) =>
        /\ chart_status # "ok"
        /\ kpi_status # "ok"

----------------------------------------------------------------------------
(* C5 *)

\* C5: the main chart holds one series per metric of the group for a single
\* company, named by the metric, and two per metric for both companies, named
\* "Company -- Metric", metrics in catalog order and Ambuja before UltraTech.
C5_SeriesPerMetricAndCompany ==
    loaded =>
        LET pairs == SeriesPairs(company_select, metric_group)
            n == Len(metric_groups_dict[metric_group])
        IN  /\ Len(main_chart.data) = IF company_select = Both THEN 2 * n ELSE n
            /\ \A k \in 1..Len(main_chart.data) :
                main_chart.data[k].name = SeriesLabel(company_select, pairs[k])

\* liquidity with both companies: 4 series.
C5_Witness ==
    /\ loaded
    /\ company_select = Both
    /\ metric_group = "liquidity"
    /\ Len(main_chart.data) = 4
    /\ main_chart.data[2].name = "UltraTech Cement -- Current Ratio"

----------------------------------------------------------------------------
(* C6 *)

\* C6: the columns of the table are the full cross product of the companies
\* present in the filtered record set and the metrics of the group, also for
\* a pair none of whose records in range carries a value.
C6_ColumnsAreCrossProduct ==
    loaded =>
        LET metrics == metric_groups_dict[metric_group]
            dff == Filtered(df, metrics, year_slider[1], year_slider[2])
            present == {dff[i].Company : i \in 1..Len(dff)}
        IN  Range(data_table.table_df.columns) = present \X Range(metrics)

----------------------------------------------------------------------------
(* C7 *)

\* C7: the table has exactly one row per year of the range, in ascending
\* order of year, and each cell that is not absent equals the dataset value
\* of its company, metric and year rounded to 3 decimals; a cell is absent
\* exactly when the dataset has no value there.
C7_OneRowPerYear ==
    loaded =>
        LET t == data_table.table_df
            ys == YearsOf(year_slider)
        IN  /\ Len(t.index) = year_slider[2] - year_slider[1] + 1
            /\ t.index = [i \in 1..Len(ys) |-> LabelOfYear(ys[i])]
            /\ \A i \in 1..Len(t.index) : \A j \in 1..Len(t.columns) :
                LET v == TableValue(t.columns[j][1], t.columns[j][2], ys[i])
                IN  IF v = None THEN t.values[i][j] = NaN
                    ELSE t.values[i][j] = [milli |-> v.num * 10]

\* leverage over 2021..2025: 5 rows, and Ambuja's Mar-21 Interest Coverage
\* Ratio is 37.14.
C7_Witness ==
    /\ loaded
    /\ metric_group = "leverage"
    /\ year_slider = <<2021, 2025>>
    /\ data_table.table_df.index = years
    /\ data_table.table_df.columns[1] = <<Ambuja, "Interest Coverage Ratio">>
    /\ data_table.table_df.values[1][1] = [milli |-> 37140]
    /\ data_table.table_text[4] = "Mar-21,37.14,7.31"

----------------------------------------------------------------------------
(* C8 *)

Clamp(r) ==
    LET lo == IF r[1] < MinYear THEN MinYear ELSE IF r[1] > MaxYear THEN MaxYear ELSE r[1]
        hi == IF r[2] > MaxYear THEN MaxYear ELSE IF r[2] < MinYear THEN MinYear ELSE r[2]
    IN  <<lo, hi>>

\* C8: a call whose year range leaves the dataset's bounds does not fail and
\* gives the chart, sparkline and table of the range clamped to the bounds.
C8_RangeIsClamped ==
    (loaded /\ metric_group \in DOMAIN metric_groups) =>
        LET clamped == update_charts(company_select, metric_group, Clamp(year_slider))
        IN  /\ chart_status = "ok"
            /\ main_chart = clamped.fig
            /\ spark_chart = clamped.spark
            /\ data_table = clamped.table

----------------------------------------------------------------------------
(* C9 *)

\* Invoking both callbacks once more, with the selection as it is, gives the
\* views that are on display.
C9_Recomputed ==
    loaded =>
        LET k == update_kpis_and_insights(company_select, metric_group)
            c == update_charts(company_select, metric_group, year_slider)
        IN  /\ k.status = "ok"
            /\ c.status = "ok"
            /\ kpi_cards = k.cards
            /\ insights_section = k.insight_children
            /\ main_chart = c.fig
            /\ spark_chart = c.spark
            /\ data_table = c.table

\* C9: in every reachable state a second invocation of the callbacks with the
\* same selection yields the views the first one produced; whenever the
\* selection is again the one of the first page load, after whatever events
\* and page loads, the views are those of the first page load; and no call
\* has changed the dataset, the metric groups, the color maps or the insights.
C9_SameSelectionSameViews ==
    /\ df = DataFrame(rows)
    /\ metric_groups = metric_groups_dict
    /\ metric_colors = metric_colors_dict
    /\ company_colors = company_colors_dict
    /\ insights = insights_dict
    /\ C9_Recomputed
    /\ (snap.taken /\ selection = snap.selection) =>
            /\ views = snap.views
            /\ kpi_status = "ok"
            /\ chart_status = "ok"

\* The selection has been another one and is the recorded one again.
C9_Witness ==
    /\ snap.taken
    /\ snap.away
    /\ snap.returned
    /\ selection = snap.selection
    /\ views = snap.views

----------------------------------------------------------------------------
(* C10 *)

AsFloat(v) == IF v = None THEN NaN ELSE v

\* With a single company selected, the main chart and the sparkline hold that
\* company's values only, while the table holds a column for every company
\* and metric of the group that has a value in range.
C10_TableShowsBothCompanies ==
    loaded =>
        LET metrics == metric_groups_dict[metric_group]
            ys == YearsOf(year_slider)
            Values(comp, metric) == [i \in 1..Len(ys) |-> AsFloat(TableValue(comp, metric, ys[i]))]
        IN  /\ company_select # Both =>
                /\ Len(main_chart.data) = Len(metrics)
                /\ \A k \in 1..Len(metrics) :
                        main_chart.data[k].y = Values(company_select, metrics[k])
                /\ Len(spark_chart.data) = 1
                /\ spark_chart.data[1].name = company_select
                /\ spark_chart.data[1].y = Values(company_select, metrics[1])
            /\ \A comp \in {Ambuja, UltraTech} : \A k \in 1..Len(metrics) :
                (\E i \in 1..Len(ys) : TableValue(comp, metrics[k], ys[i]) # None)
                    => <<comp, metrics[k]>> \in Range(data_table.table_df.columns)

C10_CompanyLeavesTable ==
    (/\ loaded
     /\ company_select' # company_select
     /\ metric_group' = metric_group
     /\ year_slider' = year_slider) => data_table' = data_table

============================================================================
